---- MODULE Spec2Model ----
(***************************************************************************)
(* AquaRegWatch: the change-detection cycle of the regulatory monitor.     *)
(*                                                                         *)
(* Two cycle implementations live in the repository and both are modelled: *)
(*   - run_monitor (src/monitor.py): JSON files, fetch_page_with_retry,    *)
(*     track_failure / clear_failure;                                      *)
(*   - AquaRegMonitor.check_all_sources / check_source                     *)
(*     (src/src/monitor.py): database rows,                                *)
(*     NorwegianAquacultureScraper.fetch_page, ChangeDetector.             *)
(* The variable impl, fixed by Init, says which of the two is running.     *)
(*                                                                         *)
(* A text is a sequence of tokens.  A token stands for the smallest piece  *)
(* of text the regular expressions of the source tell apart: a word, a     *)
(* numeric date, a clock time, a blank, a line break, ...                  *)
(***************************************************************************)
EXTENDS Integers, Sequences, FiniteSets, TLC

\* ------------------------------------------------------------------ texts

DateTok == {"01.01.2026", "03.02.2026"}      \* \d{1,2}\.\d{1,2}\.\d{4}
IsoTok == {"2026-02-03"}                     \* \d{4}-\d{2}-\d{2}
TimeTok == {"12:30", "12:45"}                \* \d{1,2}:\d{2}
DayTok == {"3."}                             \* \d{1,2}\.
MonthTok == {"februar"}
NumTok == {"2026", "17"}                     \* \d+
CountTok == {"treff"}                        \* resultater|treff|saker|dokumenter
UpdTok == {"oppdatert", "publisert"}         \* oppdatert|publisert|endret
AgoTok == {"siden"}                          \* siden|ago
SpaceTok == {"SP", "NL"}                     \* \s : a blank, a line break

\* Every token, in a fixed order: a token's place is its code in Hash.
Alphabet ==
    << "SP", "NL", "laks", "frist", "01.01.2026", "03.02.2026", "2026-02-03",
       "12:30", "12:45", "3.", "februar", "2026", "17", "treff", "oppdatert",
       "publisert", "siden", "kl.", "Sist", "Frist",
       "[DATE]", "[TIME]", "[UPDATED]", "[COUNT]" >>

TokIndex(t) == CHOOSE k \in 1..Len(Alphabet) : Alphabet[k] = t

HashBase == Len(Alphabet) + 1

\* re.sub(r'\s+', ' ', text): every run of blanks and line breaks becomes one blank.
RECURSIVE CollapseSpace(_)
CollapseSpace(t) ==
    IF t = <<>> THEN <<>>
    ELSE IF Head(t) \in SpaceTok
         THEN IF Len(t) > 1 /\ t[2] \in SpaceTok
              THEN CollapseSpace(Tail(t))
              ELSE <<"SP">> \o CollapseSpace(Tail(t))
         ELSE <<Head(t)>> \o CollapseSpace(Tail(t))

\* str.strip(): leading and trailing blanks and line breaks removed.
RECURSIVE Strip(_)
Strip(t) ==
    IF t = <<>> THEN <<>>
    ELSE IF Head(t) \in SpaceTok THEN Strip(Tail(t))
    ELSE IF t[Len(t)] \in SpaceTok THEN Strip(SubSeq(t, 1, Len(t) - 1))
    ELSE t

\* re.sub(pattern, repl, text) for a pattern matching one token of the set toks.
RECURSIVE SubTok(_, _, _)
SubTok(t, toks, repl) ==
    IF t = <<>> THEN <<>>
    ELSE (IF Head(t) \in toks THEN repl ELSE <<Head(t)>>) \o SubTok(Tail(t), toks, repl)

\* r'\d{1,2}\. (januar|...|desember) \d{4}' -> '[DATE]': day, one blank, month,
\* one blank, year.
RECURSIVE SubSpelledDate(_)
SubSpelledDate(t) ==
    IF t = <<>> THEN <<>>
    ELSE IF /\ Len(t) >= 5
            /\ t[1] \in DayTok /\ t[2] = "SP" /\ t[3] \in MonthTok
            /\ t[4] = "SP" /\ t[5] \in NumTok
         THEN <<"[DATE]">> \o SubSpelledDate(SubSeq(t, 6, Len(t)))
         ELSE <<Head(t)>> \o SubSpelledDate(Tail(t))

\* The end of the shortest match of '.*?(siden|ago)' from place k on, 0 when
\* there is none: '.' does not cross a line break.
RECURSIVE AgoEnd(_, _)
AgoEnd(t, k) ==
    IF k > Len(t) THEN 0
    ELSE IF t[k] \in AgoTok THEN k
    ELSE IF t[k] = "NL" THEN 0
    ELSE AgoEnd(t, k + 1)

\* r'(oppdatert|publisert|endret).*?(siden|ago)' -> '[UPDATED]'
RECURSIVE SubUpdated(_)
SubUpdated(t) ==
    IF t = <<>> THEN <<>>
    ELSE IF Head(t) \in UpdTok /\ AgoEnd(t, 2) > 0
         THEN <<"[UPDATED]">> \o SubUpdated(SubSeq(t, AgoEnd(t, 2) + 1, Len(t)))
         ELSE <<Head(t)>> \o SubUpdated(Tail(t))

\* r'\d+ (resultater|treff|saker|dokumenter)' -> '[COUNT]'
RECURSIVE SubCount(_)
SubCount(t) ==
    IF t = <<>> THEN <<>>
    ELSE IF Len(t) >= 3 /\ t[1] \in NumTok /\ t[2] = "SP" /\ t[3] \in CountTok
         THEN <<"[COUNT]">> \o SubCount(SubSeq(t, 4, Len(t)))
         ELSE <<Head(t)>> \o SubCount(Tail(t))

\* normalize_content of src/monitor.py: the substitutions in the source's order.
normalize_content(text) ==
    LET a == SubTok(text, DateTok, <<"[DATE]">>)
        b == SubSpelledDate(a)
        c == SubTok(b, TimeTok, <<"[TIME]">>)
        d == SubUpdated(c)
        e == SubCount(d)
    IN  Strip(CollapseSpace(e))

\* r'kl\.\s*\d{1,2}[:.]\d{2}' -> '': "kl.", any blanks, a clock time.
RECURSIVE KlEnd(_, _)
KlEnd(t, k) ==
    IF k > Len(t) THEN 0
    ELSE IF t[k] \in TimeTok THEN k
    ELSE IF t[k] \in SpaceTok THEN KlEnd(t, k + 1)
    ELSE 0

RECURSIVE SubKlTime(_)
SubKlTime(t) ==
    IF t = <<>> THEN <<>>
    ELSE IF Head(t) = "kl." /\ KlEnd(t, 2) > 0
         THEN SubKlTime(SubSeq(t, KlEnd(t, 2) + 1, Len(t)))
         ELSE <<Head(t)>> \o SubKlTime(Tail(t))

\* The end of the blanks from place k on when "oppdatert" follows them, else 0.
RECURSIVE SistEnd(_, _)
SistEnd(t, k) ==
    IF k > Len(t) THEN 0
    ELSE IF t[k] \in SpaceTok THEN SistEnd(t, k + 1)
    ELSE IF t[k] = "oppdatert" /\ k > 2 THEN k
    ELSE 0

\* r'Sist\s+oppdatert' -> ''
RECURSIVE SubSistOppdatert(_)
SubSistOppdatert(t) ==
    IF t = <<>> THEN <<>>
    ELSE IF Head(t) = "Sist" /\ SistEnd(t, 2) > 0
         THEN SubSistOppdatert(SubSeq(t, SistEnd(t, 2) + 1, Len(t)))
         ELSE <<Head(t)>> \o SubSistOppdatert(Tail(t))

\* A cleaning that removes the IGNORE_PATTERNS and keeps the line breaks.
clean_text_keeping_lines(text) ==
    LET a == SubTok(text, DateTok, <<>>)
        b == SubTok(a, IsoTok, <<>>)
        c == SubKlTime(b)
        d == SubSistOppdatert(c)
    IN  Strip(SubTok(d, {"publisert"}, <<>>))

\* ChangeDetector._clean_text: IGNORE_PATTERNS removed in their order, then the
\* blanks collapsed and stripped.  (r'^\s*$' without re.MULTILINE matches only
\* a text that is all blanks, which the collapse and strip empty anyway.)
clean_text(text) ==
    LET a == SubTok(text, DateTok, <<>>)
        b == SubTok(a, IsoTok, <<>>)
        c == SubKlTime(b)
        d == SubSistOppdatert(c)
        e == SubTok(d, {"publisert"}, <<>>)
    IN  Strip(CollapseSpace(e))

\* hashlib.sha256(...).hexdigest(): a digest that is equal exactly for equal
\* inputs (no collisions), computed as the text's code in base HashBase.
RECURSIVE Hash(_)
Hash(t) == IF t = <<>> THEN 0 ELSE TokIndex(Head(t)) + HashBase * Hash(Tail(t))

\* ------------------------------------------------------- change detector

\* Tokens in which, lowercased, a key of SIGNIFICANT_KEYWORDS occurs as a
\* substring ("frist"; "pd" in "oppdatert"), and those holding a hard-trigger term.
KeywordTok == {"frist", "Frist", "oppdatert"}
HardTriggerTok == {"frist", "Frist"}

\* str.splitlines(): the text cut at its line breaks.
RECURSIVE SplitLines(_)
SplitLines(t) ==
    IF t = <<>> THEN <<>>
    ELSE LET brk == {k \in 1..Len(t) : t[k] = "NL"}
         IN  IF brk = {} THEN <<t>>
             ELSE LET k == CHOOSE x \in brk : \A y \in brk : x <= y
                  IN  <<SubSeq(t, 1, k - 1)>> \o SplitLines(SubSeq(t, k + 1, Len(t)))

\* The number of lines difflib.SequenceMatcher matches between two line lists
\* (the longest common subsequence; the lists compared hold at most one line).
RECURSIVE Matches(_, _)
Matches(a, b) ==
    IF a = <<>> \/ b = <<>> THEN 0
    ELSE IF Head(a) = Head(b) THEN 1 + Matches(Tail(a), Tail(b))
    ELSE LET x == Matches(Tail(a), b)
             y == Matches(a, Tail(b))
         IN  IF x >= y THEN x ELSE y

\* A change percent that reports the similarity instead of the difference.
calculate_similarity_percent(old_lines, new_lines) ==
    IF old_lines = <<>> /\ new_lines = <<>> THEN 0
    ELSE IF old_lines = <<>> THEN 10000
    ELSE LET T == Len(old_lines) + Len(new_lines)
             M == Matches(old_lines, new_lines)
         IN  (2 * 10000 * (2 * M) + T) \div (2 * T)

\* ChangeDetector._calculate_change_percent, in hundredths of a percent:
\* round((1 - 2*M/T) * 100, 2).
calculate_change_percent(old_lines, new_lines) ==
    IF old_lines = <<>> /\ new_lines = <<>> THEN 0
    ELSE IF old_lines = <<>> THEN 10000
    ELSE LET T == Len(old_lines) + Len(new_lines)
             M == Matches(old_lines, new_lines)
         IN  (2 * 10000 * (T - 2 * M) + T) \div (2 * T)

\* min_change_threshold_percent (default 1.0), in hundredths of a percent.
min_change_threshold == 100

\* An extraction that takes every line of the new text, in the old text or not.
all_new_lines(old, new) ==
    LET news == {SplitLines(new)[k] : k \in 1..Len(SplitLines(new))}
    IN  {Strip(l) : l \in {x \in news : Strip(x) # <<>>}}

\* ChangeDetector._extract_changes: the stripped non-blank lines of the new
\* text that are no line of the old text.
added_lines(old, new) ==
    LET olds == {SplitLines(old)[k] : k \in 1..Len(SplitLines(old))}
        news == {SplitLines(new)[k] : k \in 1..Len(SplitLines(new))}
    IN  {Strip(l) : l \in {x \in news \ olds : Strip(x) # <<>>}}

\* A significance that leaves the percent cutoff out.
SignificantByKeywordsAlone(pct, keywords_found, hard, thr) ==
    keywords_found # {} \/ hard

\* A significance that is the percent cutoff alone.
SignificantByPercentAlone(pct, keywords_found, hard, thr) == pct >= thr

\* is_significant = (change_percent >= threshold or keywords found or hard trigger)
Significant(pct, keywords_found, hard, thr) ==
    pct >= thr \/ keywords_found # {} \/ hard

\* The keys of SIGNIFICANT_KEYWORDS that occur, as substrings, in a token
\* lowercased: "frist" in "frist" and "Frist", "pd" in "oppdatert".
LexiconIn(tok) ==
    IF tok \in {"frist", "Frist"} THEN {"frist"}
    ELSE IF tok = "oppdatert" THEN {"pd"}
    ELSE {}

\* ChangeDetector._extract_keywords on the joined added lines: the keys that
\* occur in them.
extract_keywords(lines) ==
    UNION {UNION {LexiconIn(l[k]) : k \in 1..Len(l)} : l \in lines}

\* any(kw in changed_text.lower() for kw in ['forskrift', 'frist', 'bot', 'stenging'])
HardTrigger(lines) ==
    \E l \in lines : \E k \in 1..Len(l) : l[k] \in HardTriggerTok

\* The ChangeAnalysis of identical texts and of texts equal after cleaning.
NoChange ==
    [has_changes |-> FALSE, change_percent |-> 0, added_lines |-> {},
     significant_keywords_found |-> {}, is_significant |-> FALSE]

\* ChangeDetector.detect_changes with min_change_threshold = thr: the fields of
\* the ChangeAnalysis that depend on the texts alone (no diff, no summary).
detect_changes(old, new, thr) ==
    IF old = new THEN NoChange
    ELSE IF clean_text(old) = clean_text(new) THEN NoChange
    ELSE LET pct == calculate_change_percent(SplitLines(clean_text(old)),
                                             SplitLines(clean_text(new)))
             added == added_lines(old, new)
             keywords_found == extract_keywords(added)
         IN  [has_changes |-> TRUE,
              change_percent |-> pct,
              added_lines |-> added,
              significant_keywords_found |-> keywords_found,
              is_significant |-> Significant(pct, keywords_found, HardTrigger(added), thr)]

\* ChangeDetector.detect_changes: has_changes.
has_changes(old, new) == detect_changes(old, new, min_change_threshold).has_changes

\* ChangeDetector.detect_changes: change_percent of two texts.
change_percent(old, new) == detect_changes(old, new, min_change_threshold).change_percent

\* ChangeDetector.detect_changes: is_significant.
is_significant(old, new) == detect_changes(old, new, min_change_threshold).is_significant

\* ------------------------------------------------------------- constants

\* src/monitor.py
TIMEOUT == 30
MAX_RETRIES == 3
RETRY_DELAY == 2
RATE_LIMIT_DELAY == 1
ALERT_THRESHOLD == 3
KEEP_LAST == 100
EXCERPT == 5000

\* src/src/monitor.py, src/src/scraper.py: the scraper as AquaRegMonitor builds it.
max_retries == 3
retry_delay == 5
rate_limit_delay == 6
check_interval_hours == 4

\* The sources monitored (two of SOURCES, in their order).
SOURCES == <<"fiskeridir-akvakultur", "mattilsynet-fisk">>
SourceIds == {SOURCES[k] : k \in 1..Len(SOURCES)}

\* What a source may serve: extracted page texts.  The second differs from the
\* first in a date and a line break only, the third in a clock time only.
Pages ==
    { <<"laks", "SP", "01.01.2026", "SP", "12:30">>,
      <<"laks", "NL", "03.02.2026", "SP", "12:30">>,
      <<"laks", "SP", "01.01.2026", "SP", "12:45">>,
      <<"frist", "SP", "laks">> }

\* How a request may end: a page, a timeout, a status code, a response that
\* cannot be parsed, an exception of the request itself.
Outcomes == {"ok", "timeout", "http404", "http5xx", "http4xx", "garbled", "exc"}

\* The outcomes the cycles of Spec draw from: a page, retries that run out, a
\* failure at once, a response that cannot be parsed, an exception.  FetchSpec
\* draws from Outcomes.
CycleOutcomes == {"ok", "timeout", "http404", "garbled", "exc"}

\* The pages and the outcomes the cycles of FailureSpec draw from.
FailurePages == {<<"frist", "SP", "laks">>, <<"laks", "SP", "01.01.2026", "SP", "12:30">>}
FailureOutcomes == {"ok", "timeout", "http404"}

\* Bounds of the model: the cycles run under Spec, FetchSpec and FailureSpec.
MaxCycles == 2
FetchCycles == 1
FailureCycles == 4

\* Elapsed seconds are counted up to TimeCap ("that long or longer").
TimeCap == rate_limit_delay + 1
Tick(g, d) == IF g + d >= TimeCap THEN TimeCap ELSE g + d

\* Hours since a source was checked are counted up to its interval.
AgeCap == check_interval_hours

\* ----------------------------------------------------------------- state

VARIABLES
    impl,            \* "run_monitor" | "check_all_sources": the cycle that runs
    pc,              \* "idle" | "loop" | "fetch" | "process" | "crashed"
    cycle,           \* cycles started so far
    todo,            \* the sources this cycle checks, in order
    i,               \* place in todo of the source being checked
    attempt,         \* requests made so far by the fetch call in progress
    last_status,     \* how the latest request of the call ended
    only_timeouts,   \* every request of the call so far timed out
    sleeps,          \* sleeps[k]: seconds the call slept after its k-th request
    fetched,         \* what the fetch call returned
    gap,             \* seconds since the latest request was sent
    call_gap,        \* gap seen when a call sent its first request
    stamp_age,       \* seconds since scraper.last_request_time
    snapshots,       \* run_monitor's dict, loaded from and saved to the file
    snapshots_file,  \* data/snapshots.json
    failures,        \* data/failures.json: count per source, 0 for no entry
    changes,         \* data/changes.json
    should_alert,    \* what track_failure last returned
    db_snapshots,    \* Snapshot table: the newest row of each source
    db_changes,      \* Change table
    last_checked,    \* Source.last_checked: whether set, and how many hours ago
    done,            \* times each source was processed in this cycle
    this_page,       \* page each source served to this cycle, <<>> for none
    last_page,       \* the same for the cycle before
    fail_run,        \* failed fetch calls of each source since its last success
    applied,         \* times the function under study was applied to its input
    input_text,      \* normalize_content: the text given
    normalized,      \* normalize_content(input_text)
    renormalized,    \* normalize_content(normalized)
    old_content,     \* detect_changes: the previous content
    new_content,     \* detect_changes: the current content
    threshold,       \* ChangeDetector.min_change_threshold, in hundredths of a percent
    analysis,        \* the ChangeAnalysis detect_changes returned
    clients,         \* Client rows
    notify_changes,  \* the changes notify_clients is called with
    relevant,        \* relevant[c]: what notify_clients found relevant for client c
    deliveries,      \* the messages handed to the email and Slack delivery
    notifications,   \* Notification rows
    running,         \* MonitorScheduler.running
    stop_signal,     \* a SIGINT or SIGTERM has been delivered to the daemon
    daemon_pc,       \* where run_daemon stands
    calls,           \* calls of run_once the daemon has made
    alert_sent       \* what the alerts of the last change run_monitor found came to

vars ==
    << impl, pc, cycle, todo, i, attempt, last_status, only_timeouts, sleeps,
       fetched, gap, call_gap, stamp_age, snapshots, snapshots_file, failures,
       changes, should_alert, db_snapshots, db_changes, last_checked, done,
       this_page, last_page, fail_run, applied, input_text, normalized, renormalized,
       old_content, new_content, threshold, analysis, clients, notify_changes,
       relevant, deliveries, notifications, running, stop_signal, daemon_pc, calls,
       alert_sent >>

normalizerVars == << input_text, normalized, renormalized >>
analyzerVars == << old_content, new_content, threshold, analysis >>
routerVars == << clients, notify_changes, relevant, deliveries, notifications >>
daemonVars == << running, stop_signal, daemon_pc, calls >>
functionVars == << applied, normalizerVars, analyzerVars, routerVars, daemonVars >>

fetchVars == << attempt, last_status, only_timeouts, sleeps, fetched >>
timeVars == << gap, call_gap, stamp_age >>
fileVars == << snapshots, snapshots_file, failures, changes, should_alert, alert_sent >>
dbVars == << db_snapshots, db_changes, last_checked >>
cycleVars == << cycle, todo, i, done, this_page, last_page, fail_run >>

NoSnapshot == [exists |-> FALSE, hash |-> 0, content |-> <<>>]
Failure == [error |-> TRUE, text |-> <<>>, hash |-> 0]
Success(text, h) == [error |-> FALSE, text |-> text, hash |-> h]
NeverChecked == [set |-> FALSE, age |-> 0]
CheckedNow == [set |-> TRUE, age |-> 0]

CycleInit ==
    /\ pc = "idle"
    /\ cycle = 0
    /\ todo = <<>>
    /\ i = 1
    /\ attempt = 0
    /\ last_status = "none"
    /\ only_timeouts = TRUE
    /\ sleeps = <<>>
    /\ fetched = Failure
    /\ gap = TimeCap
    /\ call_gap = TimeCap
    /\ stamp_age = TimeCap
    /\ snapshots = [s \in SourceIds |-> NoSnapshot]
    /\ snapshots_file = [s \in SourceIds |-> NoSnapshot]
    /\ failures = [s \in SourceIds |-> 0]
    /\ changes = <<>>
    /\ should_alert = FALSE
    /\ alert_sent = "none"
    /\ db_snapshots = [s \in SourceIds |-> NoSnapshot]
    /\ db_changes = <<>>
    /\ last_checked = [s \in SourceIds |-> NeverChecked]
    /\ done = [s \in SourceIds |-> 0]
    /\ this_page = [s \in SourceIds |-> <<>>]
    /\ last_page = [s \in SourceIds |-> <<>>]
    /\ fail_run = [s \in SourceIds |-> 0]

\* No text has been given to normalize_content.
NormalizerIdle == input_text = <<>> /\ normalized = <<>> /\ renormalized = <<>>

\* detect_changes has not been called.
NoAnalysis == NoChange

AnalyzerIdle ==
    /\ old_content = <<>> /\ new_content = <<>>
    /\ threshold = min_change_threshold
    /\ analysis = NoAnalysis

\* No clients, and notify_clients has not been called.
RouterIdle ==
    /\ clients = <<>> /\ notify_changes = <<>> /\ relevant = <<>>
    /\ deliveries = <<>> /\ notifications = <<>>

\* run_daemon has not been called: MonitorScheduler.__init__.
DaemonOff == running = FALSE /\ stop_signal = FALSE /\ daemon_pc = "off" /\ calls = 0

\* Before the first cycle, under either implementation.
Init ==
    /\ impl \in {"run_monitor", "check_all_sources"}
    /\ CycleInit
    /\ applied = 0
    /\ NormalizerIdle /\ AnalyzerIdle /\ RouterIdle /\ DaemonOff

\* The bookkeeping of a fetch call is fresh: when a call begins, and again once
\* the caller has taken the call's result.
CallBegins ==
    /\ attempt' = 0
    /\ last_status' = "none"
    /\ only_timeouts' = TRUE
    /\ sleeps' = <<>>
    /\ fetched' = Failure

\* A request is sent now and ends after d seconds; the call then sleeps z seconds.
RequestSent(d, z) ==
    /\ gap' = Tick(0, d + z)
    /\ call_gap' = IF attempt = 0 THEN gap ELSE call_gap
    /\ stamp_age' = Tick(stamp_age, d + z)

\* Seconds a request that ends with outcome o takes: a timeout takes TIMEOUT, any
\* other answer comes at once (the least it can take, so the shortest gaps).
Latency(o) == IF o = "timeout" THEN TIMEOUT ELSE 0

\* -------------------------------------------- src/monitor.py: fetching

\* A fetcher that retries a 404 like any other failure.
IsPermanentNever(o) == FALSE

\* The status code on which fetch_page_with_retry gives up at once.
IsPermanent(o) == o = "http404"

\* delay = RETRY_DELAY * attempt
RetryDelay(n) == RETRY_DELAY * n

\* One pass of the loop of fetch_page_with_retry: the request, and what follows
\* its outcome (return, or sleep and go round again).  A response that cannot be
\* parsed raises inside the try block and is retried like any other exception.
FetchAttempt(o, page) ==
    /\ impl = "run_monitor" /\ pc = "fetch"
    /\ attempt' = attempt + 1
    /\ last_status' = o
    /\ only_timeouts' = (only_timeouts /\ o = "timeout")
    /\ IF o = "ok"
       THEN /\ fetched' = Success(page, Hash(normalize_content(page)))
            /\ sleeps' = Append(sleeps, 0)
            /\ pc' = "process"
            /\ RequestSent(Latency(o), 0)
       ELSE IF IsPermanent(o)
       THEN /\ fetched' = Failure
            /\ sleeps' = Append(sleeps, 0)
            /\ pc' = "process"
            /\ RequestSent(Latency(o), 0)
       ELSE IF attempt + 1 < MAX_RETRIES
       THEN /\ fetched' = fetched
            /\ sleeps' = Append(sleeps, RetryDelay(attempt + 1))
            /\ pc' = "fetch"
            /\ RequestSent(Latency(o), RetryDelay(attempt + 1))
       ELSE /\ fetched' = Failure
            /\ sleeps' = Append(sleeps, 0)
            /\ pc' = "process"
            /\ RequestSent(Latency(o), 0)
    /\ UNCHANGED << impl, functionVars, cycleVars, fileVars, dbVars >>

\* ------------------------------------- src/monitor.py: failure tracking

\* A tracker that alerts only past the threshold.
AlertDueLate(count) == count > ALERT_THRESHOLD

\* Alert if 3+ consecutive failures.
AlertDue(count) == count >= ALERT_THRESHOLD

\* track_failure: the count of the source after the call.
TrackedCount(count) == count + 1

\* A clear_failure that leaves the entry in place.
ClearedCountKept(count) == count

\* clear_failure: the entry is deleted.
ClearedCount(count) == 0

\* save_change: changes = changes[-100:]
KeepLast(log) ==
    IF Len(log) <= KEEP_LAST THEN log ELSE SubSeq(log, Len(log) - KEEP_LAST + 1, Len(log))

\* content[:5000]
Excerpt(content) ==
    IF Len(content) <= EXCERPT THEN content ELSE SubSeq(content, 1, EXCERPT)

\* ------------------------------------------ src/monitor.py: run_monitor

\* run_monitor begins: snapshots = load_snapshots().  A new run starts long
\* after the one before.
RunMonitorStart(maxc) ==
    /\ impl = "run_monitor" /\ pc = "idle" /\ cycle < maxc
    /\ cycle' = cycle + 1
    /\ snapshots' = snapshots_file
    /\ todo' = SOURCES
    /\ i' = 1
    /\ done' = [s \in SourceIds |-> 0]
    /\ last_page' = this_page
    /\ this_page' = [s \in SourceIds |-> <<>>]
    /\ gap' = TimeCap /\ stamp_age' = TimeCap /\ call_gap' = TimeCap
    /\ pc' = "loop"
    /\ UNCHANGED << impl, functionVars, fetchVars, fail_run, snapshots_file, failures, changes,
                    should_alert, alert_sent, dbVars >>

\* The head of the loop over SOURCES: the rate-limit sleep before every source
\* but the first, then the call of fetch_page_with_retry.
RunMonitorNext ==
    /\ impl = "run_monitor" /\ pc = "loop" /\ i <= Len(todo)
    /\ CallBegins
    /\ LET z == IF i > 1 THEN RATE_LIMIT_DELAY ELSE 0
       IN  /\ gap' = Tick(gap, z)
           /\ stamp_age' = Tick(stamp_age, z)
           /\ call_gap' = call_gap
    /\ pc' = "fetch"
    /\ UNCHANGED << impl, functionVars, cycleVars, fileVars, dbVars >>

\* An entry that stores the hash of the content as fetched, not as normalized.
NewSnapshotRawHash(r) == [exists |-> TRUE, hash |-> Hash(r.text), content |-> Excerpt(r.text)]

\* The dict entry run_monitor writes for a changed or first-seen source.
NewSnapshot(r) == [exists |-> TRUE, hash |-> r.hash, content |-> Excerpt(r.text)]

\* A loop body without the branch for a source seen for the first time.
IsFirstNever(previous) == FALSE

\* previous_hash is None: the source has no snapshot yet.
IsFirst(previous) == ~previous.exists

\* content_hash != previous_hash: the "CHANGE DETECTED" branch.
HashChanged(previous, r) == r.hash # previous.hash

\* The summary a change record holds: what the model answered, or the fallback
\* summarize_change returns without an API key or when the call or the parsing
\* of the answer fails.
Summary(summary_ok) == IF summary_ok THEN "ai" ELSE "fallback"

\* A loop body that records the change only when its alert was sent.
SaveChangeWhenSent(log, change, sent) ==
    IF sent THEN KeepLast(Append(log, change)) ELSE log

\* save_change(change), after the alerts and whatever they returned.
SaveChange(log, change, sent) == KeepLast(Append(log, change))

\* The body of the loop after the fetch: track_failure and continue, or
\* clear_failure and the comparison with the previous snapshot; for a change,
\* the summary (summary_ok: the model gave one), the alerts (sent: they were
\* delivered) and the record.  (The last_checked stamp of an unchanged
\* snapshot is not modelled.)
RunMonitorProcess(summary_ok, sent) ==
    /\ impl = "run_monitor" /\ pc = "process"
    /\ LET s == todo[i]
           previous == snapshots[s]
       IN  /\ done' = [done EXCEPT ![s] = @ + 1]
           /\ IF fetched.error
              THEN /\ failures' = [failures EXCEPT ![s] = TrackedCount(@)]
                   /\ should_alert' = AlertDue(TrackedCount(failures[s]))
                   /\ fail_run' = [fail_run EXCEPT ![s] = @ + 1]
                   /\ UNCHANGED << snapshots, changes, this_page, alert_sent >>
              ELSE /\ failures' = [failures EXCEPT ![s] = ClearedCount(@)]
                   /\ should_alert' = should_alert
                   /\ fail_run' = [fail_run EXCEPT ![s] = 0]
                   /\ this_page' = [this_page EXCEPT ![s] = fetched.text]
                   /\ IF IsFirst(previous)
                      THEN /\ snapshots' = [snapshots EXCEPT ![s] = NewSnapshot(fetched)]
                           /\ UNCHANGED << changes, alert_sent >>
                      ELSE IF HashChanged(previous, fetched)
                      THEN /\ alert_sent' = IF sent THEN "sent" ELSE "failed"
                           /\ changes' = SaveChange(changes,
                                             [source_id |-> s, detected_at |-> cycle,
                                              summary |-> Summary(summary_ok)], sent)
                           /\ snapshots' = [snapshots EXCEPT ![s] = NewSnapshot(fetched)]
                      ELSE UNCHANGED << snapshots, changes, alert_sent >>
    /\ i' = i + 1
    /\ pc' = "loop"
    /\ CallBegins
    /\ call_gap' = TimeCap
    /\ UNCHANGED << impl, functionVars, cycle, todo, last_page, gap, stamp_age, snapshots_file, dbVars >>

\* The loop is over: save_snapshots(snapshots).
RunMonitorEnd ==
    /\ impl = "run_monitor" /\ pc = "loop" /\ i > Len(todo)
    /\ snapshots_file' = snapshots
    /\ pc' = "idle"
    /\ UNCHANGED << impl, functionVars, cycleVars, fetchVars, timeVars, snapshots, failures, changes,
                    should_alert, alert_sent, dbVars >>

\* ------------------------------------------ src/src/scraper.py: fetching

\* NorwegianAquacultureScraper._rate_limit: the seconds it sleeps.
RateLimitSleep(elapsed) == IF elapsed < rate_limit_delay THEN rate_limit_delay - elapsed ELSE 0

\* time.sleep(self.retry_delay) after the n-th request
ScraperRetryDelay(n) == retry_delay

\* The outcomes after which fetch_page sleeps before it goes round again.
ScraperSleeps(o) == o \in {"http5xx", "timeout"}

\* The outcomes on which the loop of fetch_page breaks.
ScraperBreaks(o) == o \in {"ok", "garbled", "http404", "exc"}

\* One pass of the loop of fetch_page and, when the loop ends with it, the rest
\* of fetch_page: the failure result, or parsing, extraction and the hash of the
\* extracted text.  Parsing and extraction run outside the try block: when they
\* raise ("garbled"), the exception leaves fetch_page, check_source and
\* check_all_sources, none of which catches it.
ScraperAttempt(o, page) ==
    /\ impl = "check_all_sources" /\ pc = "fetch"
    /\ attempt' = attempt + 1
    /\ last_status' = o
    /\ only_timeouts' = (only_timeouts /\ o = "timeout")
    /\ IF o = "ok"
       THEN /\ fetched' = Success(page, Hash(page))
            /\ sleeps' = Append(sleeps, 0)
            /\ pc' = "process"
            /\ RequestSent(Latency(o), 0)
       ELSE IF o = "garbled"
       THEN /\ fetched' = fetched
            /\ sleeps' = Append(sleeps, 0)
            /\ pc' = "crashed"
            /\ RequestSent(Latency(o), 0)
       ELSE IF ScraperBreaks(o) \/ attempt + 1 >= max_retries
       THEN /\ fetched' = Failure
            /\ sleeps' = Append(sleeps, 0)
            /\ pc' = "process"
            /\ RequestSent(Latency(o), 0)
       ELSE LET z == IF ScraperSleeps(o) THEN ScraperRetryDelay(attempt + 1) ELSE 0
            IN  /\ fetched' = fetched
                /\ sleeps' = Append(sleeps, z)
                /\ pc' = "fetch"
                /\ RequestSent(Latency(o), z)
    /\ UNCHANGED << impl, functionVars, cycleVars, fileVars, dbVars >>

\* --------------------------------- src/src/monitor.py: AquaRegMonitor

\* Hours that may pass from one cycle to the next (hourly daemon, 4-hourly cron).
CycleGapHours == {1, check_interval_hours}

Aged(lc, h) ==
    IF ~lc.set THEN lc
    ELSE [set |-> TRUE, age |-> IF lc.age + h >= AgeCap THEN AgeCap ELSE lc.age + h]

\* get_sources_to_check: never checked, or checked at least the interval ago.
IsDue(lc) == ~lc.set \/ lc.age >= check_interval_hours

\* check_all_sources begins, h hours after the cycle before: the due sources.
CheckAllStart(h, maxc) ==
    /\ impl = "check_all_sources" /\ pc \in {"idle", "crashed"} /\ cycle < maxc
    /\ cycle' = cycle + 1
    /\ last_checked' = [s \in SourceIds |-> Aged(last_checked[s], h)]
    /\ LET Test(s) == IsDue(Aged(last_checked[s], h))
       IN  todo' = SelectSeq(SOURCES, Test)
    /\ i' = 1
    /\ done' = [s \in SourceIds |-> 0]
    /\ last_page' = this_page
    /\ this_page' = [s \in SourceIds |-> <<>>]
    /\ gap' = TimeCap /\ stamp_age' = TimeCap /\ call_gap' = TimeCap
    /\ CallBegins
    /\ pc' = "loop"
    /\ UNCHANGED << impl, functionVars, fail_run, fileVars, db_snapshots, db_changes >>

\* check_source begins: scraper.fetch_page is called and runs _rate_limit.
CheckSourceBegin ==
    /\ impl = "check_all_sources" /\ pc = "loop" /\ i <= Len(todo)
    /\ CallBegins
    /\ gap' = Tick(gap, RateLimitSleep(stamp_age))
    /\ stamp_age' = 0
    /\ call_gap' = call_gap
    /\ pc' = "fetch"
    /\ UNCHANGED << impl, functionVars, cycleVars, fileVars, dbVars >>

\* The Snapshot row check_source adds for a fetched page.
NewRow(r) == [exists |-> TRUE, hash |-> r.hash, content |-> r.text]

\* Whether check_source creates a Change: the hashes differ and the detector
\* finds a significant change.
CreatesChange(previous, r) ==
    /\ previous.exists
    /\ previous.hash # r.hash
    /\ has_changes(previous.content, r.text)
    /\ is_significant(previous.content, r.text)

\* check_source after the fetch; summary_ok: the summarizer is set up and
\* gives a summary, otherwise the Change keeps its empty summary columns.
CheckSourceProcess(summary_ok) ==
    /\ impl = "check_all_sources" /\ pc = "process"
    /\ LET s == todo[i]
           previous == db_snapshots[s]
       IN  /\ done' = [done EXCEPT ![s] = @ + 1]
           /\ last_checked' = [last_checked EXCEPT ![s] = CheckedNow]
           /\ fail_run' = [fail_run EXCEPT ![s] = IF fetched.error THEN @ + 1 ELSE 0]
           /\ IF fetched.error
              THEN UNCHANGED << db_snapshots, db_changes, this_page >>
              ELSE /\ db_snapshots' = [db_snapshots EXCEPT ![s] = NewRow(fetched)]
                   /\ this_page' = [this_page EXCEPT ![s] = fetched.text]
                   /\ db_changes' =
                          IF CreatesChange(previous, fetched)
                          THEN Append(db_changes,
                                      [source_id |-> s, detected_at |-> cycle,
                                       summary |-> IF summary_ok THEN "ai" ELSE "none"])
                          ELSE db_changes
    /\ i' = i + 1
    /\ pc' = "loop"
    /\ CallBegins
    /\ call_gap' = TimeCap
    /\ UNCHANGED << impl, functionVars, cycle, todo, last_page, gap, stamp_age, fileVars >>

\* check_all_sources returns.
CheckAllEnd ==
    /\ impl = "check_all_sources" /\ pc = "loop" /\ i > Len(todo)
    /\ pc' = "idle"
    /\ UNCHANGED << impl, functionVars, cycleVars, fetchVars, timeVars, fileVars, dbVars >>

\* ------------------------------------------------------- specification

\* Both cycles, over MaxCycles cycles; every change is summarised and its
\* alerts are delivered.
Next ==
    \/ RunMonitorStart(MaxCycles)
    \/ RunMonitorNext
    \/ \E o \in CycleOutcomes, page \in Pages : FetchAttempt(o, page)
    \/ RunMonitorProcess(TRUE, TRUE)
    \/ RunMonitorEnd
    \/ \E h \in CycleGapHours : CheckAllStart(h, MaxCycles)
    \/ CheckSourceBegin
    \/ \E o \in CycleOutcomes, page \in Pages : ScraperAttempt(o, page)
    \/ CheckSourceProcess(TRUE)
    \/ CheckAllEnd

Spec == Init /\ [][Next]_vars

\* Both fetchers with every outcome of a request, over FetchCycles cycles.
FetchNext ==
    \/ RunMonitorStart(FetchCycles)
    \/ RunMonitorNext
    \/ \E o \in Outcomes, page \in Pages : FetchAttempt(o, page)
    \/ RunMonitorProcess(TRUE, TRUE)
    \/ RunMonitorEnd
    \/ \E h \in CycleGapHours : CheckAllStart(h, FetchCycles)
    \/ CheckSourceBegin
    \/ \E o \in Outcomes, page \in Pages : ScraperAttempt(o, page)
    \/ CheckSourceProcess(TRUE)
    \/ CheckAllEnd

FetchSpec == Init /\ [][FetchNext]_vars

\* run_monitor alone, over FailureCycles cycles of failing and succeeding
\* fetches; every change is summarised and its alerts are delivered.
FailureInit == Init /\ impl = "run_monitor"

FailureNext ==
    \/ RunMonitorStart(FailureCycles)
    \/ RunMonitorNext
    \/ \E o \in FailureOutcomes, page \in FailurePages : FetchAttempt(o, page)
    \/ RunMonitorProcess(TRUE, TRUE)
    \/ RunMonitorEnd

FailureSpec == FailureInit /\ [][FailureNext]_vars

\* ------------------------------------- summaries and alerts that may fail

\* A request that is answered with the page, or with 404.
DaemonOutcomes == {"ok", "http404"}

\* Both cycles, over MaxCycles cycles, with pages that are fetched or not found;
\* the summary of a change and the delivery of its alerts succeed or fail.
SummaryNext ==
    \/ RunMonitorStart(MaxCycles)
    \/ RunMonitorNext
    \/ \E o \in DaemonOutcomes, page \in FailurePages : FetchAttempt(o, page)
    \/ \E summary_ok \in BOOLEAN, sent \in BOOLEAN : RunMonitorProcess(summary_ok, sent)
    \/ RunMonitorEnd
    \/ \E h \in CycleGapHours : CheckAllStart(h, MaxCycles)
    \/ CheckSourceBegin
    \/ \E o \in DaemonOutcomes, page \in FailurePages : ScraperAttempt(o, page)
    \/ \E summary_ok \in BOOLEAN : CheckSourceProcess(summary_ok)
    \/ CheckAllEnd

SummarySpec == Init /\ [][SummaryNext]_vars

\* -------------------------------------------------- a cycle that is cut short

\* The process is stopped between two sources of a cycle (an interrupt during
\* the rate-limit sleep, a kill): whatever was written to the files or
\* committed to the database stays, what run_monitor holds in memory is lost
\* (the next run loads snapshots.json again).
Interrupt ==
    /\ pc = "loop" /\ 1 < i /\ i <= Len(todo)
    /\ pc' = "idle"
    /\ UNCHANGED << impl, functionVars, cycleVars, fetchVars, timeVars, fileVars, dbVars >>

\* Both cycles, over MaxCycles cycles any of which may be cut short.
InterruptNext == Next \/ Interrupt

InterruptSpec == Init /\ [][InterruptNext]_vars

\* ------------------------------------------- run_monitor with a long history

\* run_monitor after many earlier runs: changes.json holds KEEP_LAST records, of
\* the runs numbered up to 0, and every source has a snapshot.
FullLogInit ==
    /\ impl = "run_monitor"
    /\ pc = "idle" /\ cycle = 0 /\ todo = <<>> /\ i = 1
    /\ attempt = 0 /\ last_status = "none" /\ only_timeouts = TRUE
    /\ sleeps = <<>> /\ fetched = Failure
    /\ gap = TimeCap /\ call_gap = TimeCap /\ stamp_age = TimeCap
    /\ snapshots = [s \in SourceIds |-> NoSnapshot]
    /\ failures = [s \in SourceIds |-> 0]
    /\ should_alert = FALSE
    /\ alert_sent = "none"
    /\ db_snapshots = [s \in SourceIds |-> NoSnapshot]
    /\ db_changes = <<>>
    /\ last_checked = [s \in SourceIds |-> NeverChecked]
    /\ done = [s \in SourceIds |-> 0]
    /\ this_page = [s \in SourceIds |-> <<>>]
    /\ last_page = [s \in SourceIds |-> <<>>]
    /\ fail_run = [s \in SourceIds |-> 0]
    /\ applied = 0
    /\ NormalizerIdle /\ AnalyzerIdle /\ RouterIdle /\ DaemonOff
    /\ changes = [k \in 1..KEEP_LAST |->
                     [source_id |-> SOURCES[1], detected_at |-> k - KEEP_LAST,
                      summary |-> "ai"]]
    /\ snapshots_file =
           [s \in SourceIds |->
               NewSnapshot(Success(<<"laks">>, Hash(normalize_content(<<"laks">>))))]

FullLogSpec == FullLogInit /\ [][FailureNext]_vars

\* ------------------------------- src/src/scheduler.py: MonitorScheduler

\* Calls of run_once one run of the daemon makes at most.
MaxRuns == 2

\* What a source may serve in a daemon cycle.
DaemonPages == {<<"laks">>, <<"frist", "SP", "laks">>}

\* run_daemon has installed signal_handler for SIGINT and SIGTERM and has
\* scheduled the job; no client is subscribed.
DaemonInit ==
    /\ impl = "check_all_sources" /\ CycleInit
    /\ applied = 0
    /\ NormalizerIdle /\ AnalyzerIdle /\ RouterIdle
    /\ running = FALSE /\ stop_signal = FALSE /\ daemon_pc = "handlers" /\ calls = 0

\* signal_handler: self.running = False.  One signal is delivered, at any time.
SignalHandler ==
    /\ daemon_pc \notin {"off", "stopped"} /\ ~stop_signal
    /\ stop_signal' = TRUE
    /\ running' = FALSE
    /\ UNCHANGED << impl, pc, cycleVars, fetchVars, timeVars, fileVars, dbVars, applied,
                    normalizerVars, analyzerVars, routerVars, daemon_pc, calls >>

\* "Run immediately on startup": self.run_once() is called.
DaemonStartup ==
    /\ daemon_pc = "handlers"
    /\ daemon_pc' = "run_once"
    /\ calls' = 1
    /\ UNCHANGED << impl, pc, cycleVars, fetchVars, timeVars, fileVars, dbVars, applied,
                    normalizerVars, analyzerVars, routerVars, running, stop_signal >>

\* run_once returns.  After the call at startup comes self.running = True; a
\* scheduled call returns into the loop.
RunOnceReturns ==
    /\ daemon_pc = "run_once" /\ pc = "idle" /\ cycle = calls
    /\ running' = IF calls = 1 THEN TRUE ELSE running
    /\ daemon_pc' = "loop"
    /\ UNCHANGED << impl, pc, cycleVars, fetchVars, timeVars, fileVars, dbVars, applied,
                    normalizerVars, analyzerVars, routerVars, stop_signal, calls >>

\* while self.running: schedule.run_pending(); time.sleep(60).  The job is due
\* or not; when it is, run_pending calls run_once.
DaemonLoop(due) ==
    /\ daemon_pc = "loop"
    /\ IF ~running
       THEN daemon_pc' = "stopped" /\ calls' = calls
       ELSE /\ due /\ calls < MaxRuns
            /\ daemon_pc' = "run_once" /\ calls' = calls + 1
    /\ UNCHANGED << impl, pc, cycleVars, fetchVars, timeVars, fileVars, dbVars, applied,
                    normalizerVars, analyzerVars, routerVars, running, stop_signal >>

\* The daemon and the cycles run_once runs.
DaemonNext ==
    \/ SignalHandler
    \/ DaemonStartup
    \/ RunOnceReturns
    \/ \E due \in BOOLEAN : DaemonLoop(due)
    \/ \E h \in CycleGapHours : CheckAllStart(h, calls)
    \/ CheckSourceBegin
    \/ \E o \in DaemonOutcomes, page \in DaemonPages : ScraperAttempt(o, page)
    \/ \E summary_ok \in BOOLEAN : CheckSourceProcess(summary_ok)
    \/ CheckAllEnd

DaemonSpec == DaemonInit /\ [][DaemonNext]_vars

\* ---------------------------------- src/monitor.py: normalize_content alone

\* The texts given to normalize_content: every text of at most MaxTextLen tokens
\* over a counter, an "updated ... ago" phrase, a blank and a line break, and
\* spelled-month dates written with one blank, two blanks and a line break.
MaxTextLen == 4
NormalizerTokens == {"17", "treff", "oppdatert", "siden", "SP", "NL"}
NormalizerTexts ==
    UNION {[1..n -> NormalizerTokens] : n \in 0..MaxTextLen}
    \cup { <<"3.", "SP", "februar", "SP", "2026">>,
           <<"3.", "SP", "SP", "februar", "SP", "2026">>,
           <<"3.", "SP", "februar", "NL", "2026">>,
           <<"laks", "SP", "01.01.2026", "SP", "12:30">> }

NormalizerInit ==
    /\ impl = "run_monitor" /\ CycleInit
    /\ applied = 0
    /\ input_text \in NormalizerTexts /\ normalized = <<>> /\ renormalized = <<>>
    /\ AnalyzerIdle /\ RouterIdle /\ DaemonOff

\* normalized = normalize_content(content), as fetch_page_with_retry calls it.
Normalize ==
    /\ applied = 0
    /\ normalized' = normalize_content(input_text)
    /\ applied' = 1
    /\ UNCHANGED << impl, pc, cycleVars, fetchVars, timeVars, fileVars, dbVars,
                    input_text, renormalized, analyzerVars, routerVars, daemonVars >>

\* normalize_content applied to its own result.
Renormalize ==
    /\ applied = 1
    /\ renormalized' = normalize_content(normalized)
    /\ applied' = 2
    /\ UNCHANGED << impl, pc, cycleVars, fetchVars, timeVars, fileVars, dbVars,
                    input_text, normalized, analyzerVars, routerVars, daemonVars >>

NormalizerNext == Normalize \/ Renormalize

NormalizerSpec == NormalizerInit /\ [][NormalizerNext]_vars

\* ------------------ src/src/change_detector.py: detect_changes alone

\* The contents given to detect_changes: empty, noise only, and texts that
\* differ in a date, a clock time, a counter, a keyword, a line.
AnalyzerTexts ==
    { <<>>,
      <<"SP">>,
      <<"01.01.2026">>,
      <<"laks">>,
      <<"laks", "SP", "01.01.2026">>,
      <<"laks", "SP", "03.02.2026">>,
      <<"laks", "SP", "12:30">>,
      <<"laks", "SP", "12:45">>,
      <<"laks", "SP", "kl.", "SP", "12:30">>,
      <<"laks", "SP", "kl.", "SP", "12:45">>,
      <<"laks", "SP", "17", "SP", "treff">>,
      <<"laks", "SP", "2026", "SP", "treff">>,
      <<"laks", "SP", "Sist", "SP", "oppdatert", "SP", "01.01.2026">>,
      <<"laks", "SP", "Sist", "SP", "oppdatert", "SP", "03.02.2026">>,
      <<"frist", "NL", "laks">>,
      <<"frist", "NL", "laks", "SP", "17">>,
      <<"laks", "NL", "Frist", "SP", "17">> }

\* min_change_threshold_percent as configured: the default, 100 %, and more.
Thresholds == {min_change_threshold, 100 * 100, 100 * 100 + 1}

AnalyzerInit ==
    /\ impl = "check_all_sources" /\ CycleInit
    /\ applied = 0
    /\ NormalizerIdle /\ RouterIdle /\ DaemonOff
    /\ old_content \in AnalyzerTexts /\ new_content \in AnalyzerTexts
    /\ threshold \in Thresholds
    /\ analysis = NoAnalysis

\* analysis = self.change_detector.detect_changes(old_content, new_content)
DetectChanges ==
    /\ applied = 0
    /\ analysis' = detect_changes(old_content, new_content, threshold)
    /\ applied' = 1
    /\ UNCHANGED << impl, pc, cycleVars, fetchVars, timeVars, fileVars, dbVars,
                    normalizerVars, old_content, new_content, threshold, routerVars,
                    daemonVars >>

AnalyzerNext == DetectChanges

AnalyzerSpec == AnalyzerInit /\ [][AnalyzerNext]_vars

\* ------------------------------------------------------------ notify_clients alone

\* A column that holds no value: None for a string column, Null for a text
\* column or a JSON list of names, NullList for a JSON list of texts.  Texts are
\* sequences of letters here.
None == "None"
Null == << None >>
NullList == << Null >>

\* x or default
OrStr(x, default) == IF x = None THEN default ELSE x
OrSeq(x, default) == IF x = Null \/ x = <<>> THEN default ELSE x
OrList(x, default) == IF x = NullList \/ x = <<>> THEN default ELSE x

\* str.lower(), on the letters the texts below are written in.
LowerChar(ch) ==
    CASE ch = "L" -> "l" [] ch = "U" -> "u" [] ch = "S" -> "s" [] OTHER -> ch
lower(s) == [k \in 1..Len(s) |-> LowerChar(s[k])]

\* sub in s, for strings.
In(sub, s) == \E k \in 0..(Len(s) - Len(sub)) : SubSeq(s, k + 1, k + Len(sub)) = sub

priority_order == << "critical", "high", "medium", "low" >>
index(seq, x) == (CHOOSE k \in 1..Len(seq) : seq[k] = x) - 1

\* The category of each source.
SourceCategory(s) == IF s = SOURCES[1] THEN "licenses" ELSE "health"

\* if client_categories and source.category not in client_categories: continue
CategoryAdmits(client_categories, category) ==
    ~ ( /\ client_categories # <<>>
        /\ \A k \in 1..Len(client_categories) : client_categories[k] # category )

\* if change_priority_idx > min_priority_idx: continue
PriorityAdmitsAbove(change_priority_idx, min_priority_idx) ==
    change_priority_idx < min_priority_idx
PriorityAdmits(change_priority_idx, min_priority_idx) ==
    ~ (change_priority_idx > min_priority_idx)

\* if client.keywords: has_keyword = any(kw.lower() in diff_text.lower() ...)
KeywordAdmitsCaseSensitive(keywords, diff_text) ==
    OrList(keywords, <<>>) # <<>> =>
        \E k \in 1..Len(keywords) : In(keywords[k], OrSeq(diff_text, <<>>))
KeywordAdmits(keywords, diff_text) ==
    OrList(keywords, <<>>) # <<>> =>
        \E k \in 1..Len(keywords) :
            In(lower(keywords[k]), lower(OrSeq(diff_text, <<>>)))

\* One pass of the loop of _filter_changes_for_client: the change is appended.
Admits(change, client) ==
    LET client_categories == OrSeq(client.categories, <<>>)
        min_priority_idx ==
            index(priority_order, OrStr(client.priority_threshold, "low"))
        change_priority_idx == index(priority_order, OrStr(change.priority, "medium"))
    IN  /\ CategoryAdmits(client_categories, SourceCategory(change.source_id))
        /\ PriorityAdmits(change_priority_idx, min_priority_idx)
        /\ KeywordAdmits(client.keywords, change.diff_text)

\* _filter_changes_for_client; a change is named by its place in the list given.
filter_changes_for_client(chs, client) ==
    SelectSeq([k \in 1..Len(chs) |-> k], LAMBDA k : Admits(chs[k], client))

\* query(Client).filter_by(is_active=True).all()
EveryClient(cs) == 1..Len(cs)
ActiveClients(cs) == {c \in 1..Len(cs) : cs[c].is_active}

\* self.email_delivery and self.slack_delivery are both set up.
Delivery(c, method, kind, chs) ==
    [client_id |-> c, method |-> method, kind |-> kind, changes |-> chs]
Notification(c, change_id, method, ok) ==
    [client_id |-> c, change_id |-> change_id, delivery_method |-> method,
     status |-> IF ok THEN "sent" ELSE "failed"]

\* The sends of one client of notify_clients, email first and then Slack.
ClientDeliveries(c, client, rel) ==
    (IF client.email_enabled
     THEN IF client.digest_frequency = "realtime"
          THEN [k \in 1..Len(rel) |-> Delivery(c, "email", "alert", << rel[k] >>)]
          ELSE << Delivery(c, "email", "digest", rel) >>
     ELSE <<>>)
    \o
    (IF client.slack_enabled
     THEN [k \in 1..Len(rel) |-> Delivery(c, "slack", "alert", << rel[k] >>)]
     ELSE <<>>)

\* The rows _log_notification adds for one client.
ClientNotifications(c, client, rel, ok) ==
    (IF client.email_enabled
     THEN IF client.digest_frequency = "realtime"
          THEN [k \in 1..Len(rel) |-> Notification(c, rel[1], "email", ok)]
          ELSE [k \in 1..Len(rel) |-> Notification(c, rel[k], "email", ok)]
     ELSE <<>>)
    \o
    (IF client.slack_enabled
     THEN [k \in 1..Len(rel) |-> Notification(c, rel[1], "slack", ok)]
     ELSE <<>>)

\* for client in clients, from client c on.
RECURSIVE DeliveriesFrom(_, _, _)
DeliveriesFrom(cs, chs, c) ==
    IF c > Len(cs) THEN <<>>
    ELSE LET rel == filter_changes_for_client(chs, cs[c])
         IN  (IF c \in ActiveClients(cs) /\ rel # <<>>
              THEN ClientDeliveries(c, cs[c], rel) ELSE <<>>)
             \o DeliveriesFrom(cs, chs, c + 1)

RECURSIVE NotificationsFrom(_, _, _, _)
NotificationsFrom(cs, chs, c, ok) ==
    IF c > Len(cs) THEN <<>>
    ELSE LET rel == filter_changes_for_client(chs, cs[c])
         IN  (IF c \in ActiveClients(cs) /\ rel # <<>>
              THEN ClientNotifications(c, cs[c], rel, ok) ELSE <<>>)
             \o NotificationsFrom(cs, chs, c + 1, ok)

\* Client rows and Change rows.
Client(active, categories, priority_threshold, keywords, email, slack, frequency) ==
    [is_active |-> active, categories |-> categories,
     priority_threshold |-> priority_threshold, keywords |-> keywords,
     email_enabled |-> email, slack_enabled |-> slack,
     digest_frequency |-> frequency]
Change(source_id, priority, diff_text) ==
    [source_id |-> source_id, priority |-> priority, diff_text |-> diff_text]

ClientRows ==
    { Client(TRUE, Null, None, NullList, TRUE, FALSE, "daily"),
      Client(FALSE, Null, "low", NullList, TRUE, FALSE, "realtime"),
      Client(TRUE, << "licenses" >>, "low", <<>>, TRUE, FALSE, "realtime"),
      Client(TRUE, << "health", "sea_lice" >>, "medium", NullList, FALSE, TRUE, "daily"),
      Client(TRUE, <<>>, "high", NullList, TRUE, TRUE, "realtime"),
      Client(TRUE, Null, "critical", <<>>, TRUE, FALSE, "daily"),
      Client(TRUE, Null, "low", << <<"l", "u", "s">> >>, TRUE, FALSE, "daily"),
      Client(TRUE, <<>>, "medium", << <<"k", "a">>, <<"L", "U", "S">> >>, TRUE, FALSE,
             "realtime"),
      Client(TRUE, << "licenses" >>, "high", << <<"L", "u", "s">> >>, TRUE, TRUE,
             "weekly"),
      Client(FALSE, << "sea_lice" >>, "critical", << <<"a", "k", "s">> >>, TRUE, TRUE,
             "daily") }

Priorities == {priority_order[k] : k \in 1..Len(priority_order)}

ChangeRows ==
    { Change(SOURCES[1], p, <<"L", "u", "s">>) : p \in Priorities \cup {None} }
    \cup { Change(SOURCES[2], p, d) :
             p \in {"high", "low"}, d \in {Null, <<"l", "a", "k", "s">>} }
    \cup { Change(SOURCES[2], "medium", <<"l", "u", "s", "a">>) }

\* The clients of the table, and how many changes one call is given.
ClientIds == {1, 2}
MaxChanges == 2
ChangeLists == UNION {[1..n -> ChangeRows] : n \in 0..MaxChanges}

RouterInit ==
    /\ impl = "check_all_sources" /\ CycleInit
    /\ applied = 0
    /\ NormalizerIdle /\ AnalyzerIdle /\ DaemonOff
    /\ clients \in [ClientIds -> ClientRows]
    /\ notify_changes \in ChangeLists
    /\ relevant = <<>> /\ deliveries = <<>> /\ notifications = <<>>

\* notify_clients(changes); every send of the call succeeds, or every send fails.
NotifyClients ==
    /\ applied = 0
    /\ applied' = 1
    /\ IF notify_changes = <<>>
       THEN UNCHANGED << relevant, deliveries, notifications >>
       ELSE /\ relevant' =
                [c \in ActiveClients(clients) |->
                    filter_changes_for_client(notify_changes, clients[c])]
            /\ deliveries' = DeliveriesFrom(clients, notify_changes, 1)
            /\ \E ok \in BOOLEAN :
                   notifications' = NotificationsFrom(clients, notify_changes, 1, ok)
    /\ UNCHANGED << impl, pc, cycleVars, fetchVars, timeVars, fileVars, dbVars,
                    normalizerVars, analyzerVars, clients, notify_changes,
                    daemonVars >>

RouterNext == NotifyClients

RouterSpec == RouterInit /\ [][RouterNext]_vars

\* ------------------------------------------------------------ properties

\* The snapshot the running cycle holds for source s, and its change records.
Stored(s) == IF impl = "run_monitor" THEN snapshots[s] ELSE db_snapshots[s]
ChangeRecords == IF impl = "run_monitor" THEN changes ELSE db_changes

\* The hash of the normalized content of the snapshot stored for s: run_monitor
\* stores it, check_all_sources stores the extracted text it is computed from.
StoredNormalizedHash(s) ==
    IF impl = "run_monitor" THEN snapshots[s].hash
    ELSE Hash(normalize_content(db_snapshots[s].content))

\* Attempts and base delay of the fetcher of the running cycle.
Attempts == IF impl = "run_monitor" THEN MAX_RETRIES ELSE max_retries
BaseDelay == IF impl = "run_monitor" THEN RETRY_DELAY ELSE retry_delay
MinDelay == IF impl = "run_monitor" THEN RATE_LIMIT_DELAY ELSE rate_limit_delay

\* C1: in both cycles, processing a source appends a ChangeRecord exactly when
\* the fetch succeeded, a previous snapshot exists and the hash of the normalized
\* content differs from that of the previous snapshot; content that is the same
\* after normalization never yields a ChangeRecord.
C1_ChangeIffNormalizedHashDiffers ==
    [][ \A s \in SourceIds :
          (pc = "process" /\ s = todo[i]) =>
              ( (Len(ChangeRecords') > Len(ChangeRecords))
                <=> ( /\ ~fetched.error
                      /\ Stored(s).exists
                      /\ Hash(normalize_content(fetched.text)) # StoredNormalizedHash(s) ) )
      ]_vars

\* C2: in both cycles, the first successful fetch of a source without a stored
\* snapshot stores a snapshot of what was fetched and creates no ChangeRecord.
C2_FirstFetchStoresSnapshotOnly ==
    [][ \A s \in SourceIds :
          (pc = "process" /\ s = todo[i] /\ ~fetched.error /\ ~Stored(s).exists) =>
              /\ Stored(s)'.exists
              /\ Stored(s)'.hash = fetched.hash
              /\ ChangeRecords' = ChangeRecords
      ]_vars

\* C2 happens: a first cycle of check_all_sources has stored a snapshot of a
\* source and no ChangeRecord exists.
C2_Witness ==
    /\ impl = "check_all_sources" /\ cycle = 1 /\ pc = "loop"
    /\ \E s \in SourceIds :
          done[s] = 1 /\ this_page[s] # <<>> /\ db_snapshots[s].exists
    /\ db_changes = <<>>

\* C3: when two consecutive cycles fetch every source successfully and every
\* source serves the same content to both, the second cycle creates no
\* ChangeRecord.
C3_SecondCycleIdempotent ==
    ( /\ pc = "idle" /\ cycle >= 2
      /\ \A s \in SourceIds : this_page[s] # <<>> /\ this_page[s] = last_page[s] )
    => \A k \in 1..Len(ChangeRecords) : ChangeRecords[k].detected_at # cycle

\* C3 happens: a second cycle has ended in which every source served, with a
\* date in it, the page it served to the first.
C3_Witness ==
    /\ pc = "idle" /\ cycle = 2
    /\ \A s \in SourceIds :
          /\ this_page[s] = last_page[s]
          /\ \E k \in 1..Len(this_page[s]) : this_page[s][k] \in DateTok
          /\ Stored(s).exists

\* C4: in both cycles, a failed fetch leaves the stored snapshot of the source
\* unchanged, creates no ChangeRecord and increments the failure count of the
\* source by one.
C4_FailureKeepsSnapshotAndCounts ==
    [][ \A s \in SourceIds :
          (pc = "process" /\ s = todo[i] /\ fetched.error) =>
              /\ Stored(s)' = Stored(s)
              /\ snapshots_file' = snapshots_file
              /\ ChangeRecords' = ChangeRecords
              /\ failures'[s] = failures[s] + 1
      ]_vars

\* C5: once run_monitor has processed a source, its persisted failure count is
\* the number of failed fetch calls since its last success (one per call, not
\* per attempt), and so zero exactly when its latest fetch succeeded.
C5_CountIsFailuresSinceSuccess ==
    \A s \in SourceIds :
        /\ failures[s] = fail_run[s]
        /\ (pc = "loop" /\ i > 1 /\ s = todo[i - 1]) =>
               (failures[s] = 0 <=> this_page[s] # <<>>)

\* C5 happens: after two cycles one source has failed twice in a row, and
\* another was fetched after it had failed.
C5_Witness ==
    /\ pc = "idle" /\ cycle = 2
    /\ \E s, t \in SourceIds :
          /\ failures[s] = 2 /\ this_page[s] = <<>> /\ last_page[s] = <<>>
          /\ failures[t] = 0 /\ this_page[t] # <<>> /\ last_page[t] = <<>>

\* C6: track_failure reports an alert exactly when the count after the
\* increment is 3 or more, so on every later failure too; the count changes
\* only by that increment, and by clear_failure on success.
C6_AlertFromThirdFailure ==
    [][ \A s \in SourceIds :
          /\ (pc = "process" /\ s = todo[i] /\ fetched.error) =>
                 /\ failures'[s] = failures[s] + 1
                 /\ should_alert' <=> (failures'[s] >= 3)
          /\ failures'[s] # failures[s] =>
                 /\ pc = "process" /\ s = todo[i]
                 /\ failures'[s] = IF fetched.error THEN failures[s] + 1 ELSE 0
      ]_vars

\* C6 happens: a fourth failure in a row raised the alert again.
C6_Witness ==
    /\ should_alert
    /\ \E s \in SourceIds : failures[s] = 4 /\ pc = "loop" /\ i > 1 /\ s = todo[i - 1]

\* C7: a fetch call whose requests all time out makes exactly the maximum number
\* of attempts, sleeps attempt times the base delay after each attempt but the
\* last, does not sleep after the last, and fails (both fetchers).
C7_TimeoutsBackOffLinearly ==
    (pc = "process" /\ only_timeouts /\ attempt >= 1) =>
        /\ attempt = Attempts
        /\ fetched.error
        /\ sleeps = [k \in 1..Attempts |-> IF k < Attempts THEN k * BaseDelay ELSE 0]

\* C8: a 404 ends the fetch call at once with a failure and no sleep; when it
\* answers the first request the call has made exactly one attempt (both
\* fetchers).
C8_NotFoundIsNotRetried ==
    last_status = "http404" =>
        /\ pc = "process"
        /\ fetched.error
        /\ Len(sleeps) = attempt
        /\ sleeps[attempt] = 0
        /\ (attempt = 1 => sleeps = <<0>>)

\* C8 happens: the scraper got a 404 on the first request of a call.
C8_Witness ==
    /\ impl = "check_all_sources"
    /\ last_status = "http404" /\ attempt = 1 /\ sleeps = <<0>> /\ pc = "process"

\* C9: a cycle processes every source it selected exactly once, whatever
\* happened to the sources before it (both cycles).
C9_EverySelectedSourceOnce ==
    /\ \A s \in SourceIds : done[s] <= 1
    /\ (cycle >= 1 /\ pc \in {"idle", "crashed"}) =>
           \A k \in 1..Len(todo) : done[todo[k]] = 1

\* C10: the first request of a fetch call is sent at least the minimum
\* inter-request delay after the latest request of the call before it (both
\* cycles).
C10_CallsKeepMinimumDelay ==
    call_gap >= MinDelay

\* C11: the hash a successful fetch returns depends on the normalized text
\* only: a fetch whose extracted text has the normalized form of the text of
\* the stored snapshot returns the hash stored with it, also when the raw
\* texts differ (both fetchers).
C11_HashDependsOnNormalizedTextOnly ==
    \A s \in SourceIds :
        ( /\ pc = "process" /\ s = todo[i] /\ ~fetched.error
          /\ Stored(s).exists
          /\ normalize_content(fetched.text) = normalize_content(Stored(s).content) )
        => fetched.hash = Stored(s).hash

\* C12: normalize_content is idempotent: applied to its own result it returns
\* that result, also for texts in which a volatile phrase or a spelled-month
\* date is split by a line break or by repeated blanks.
C12_NormalizeIdempotent ==
    applied = 2 => renormalized = normalized

\* Two texts differ, and only in dates, clock times or the numbers of counters.
DifferOnlyInVolatileTokens(a, b) ==
    /\ a # b /\ Len(a) = Len(b)
    /\ \A k \in 1..Len(a) :
          \/ a[k] = b[k]
          \/ a[k] \in DateTok /\ b[k] \in DateTok
          \/ a[k] \in TimeTok /\ b[k] \in TimeTok
          \/ /\ a[k] \in NumTok /\ b[k] \in NumTok
             /\ k + 2 <= Len(a) /\ a[k + 1] = "SP" /\ a[k + 2] \in CountTok

\* C13: for two texts that differ only in date, clock-time or counter
\* substrings detect_changes reports no change: has_changes false,
\* change_percent 0, is_significant false.
C13_VolatileDifferencesAreNoChange ==
    (applied = 1 /\ DifferOnlyInVolatileTokens(old_content, new_content)) =>
        /\ ~analysis.has_changes
        /\ analysis.change_percent = 0
        /\ ~analysis.is_significant

\* Two texts differ, and only in numeric DD.MM.YYYY dates.
DifferOnlyInDates(a, b) ==
    /\ a # b /\ Len(a) = Len(b)
    /\ \A k \in 1..Len(a) : a[k] = b[k] \/ (a[k] \in DateTok /\ b[k] \in DateTok)

\* C14: detect_changes returns has_changes false, with change_percent 0 and
\* is_significant false, exactly when the texts are identical or equal after
\* noise removal (as when only the date after "Sist oppdatert" differs); for
\* texts that differ after noise removal it returns has_changes true and a
\* change_percent above 0.
C14_NoChangeIffEqualAfterCleaning ==
    applied = 1 =>
        /\ ~analysis.has_changes <=>
               ( \/ old_content = new_content
                 \/ clean_text(old_content) = clean_text(new_content) )
        /\ DifferOnlyInDates(old_content, new_content) => ~analysis.has_changes
        /\ ~analysis.has_changes =>
               (analysis.change_percent = 0 /\ ~analysis.is_significant)
        /\ analysis.has_changes => analysis.change_percent > 0

\* C14 happens: detect_changes was given two texts that differ in the date after
\* "Sist oppdatert" and reported no change.
C14_Witness ==
    /\ applied = 1
    /\ old_content = <<"laks", "SP", "Sist", "SP", "oppdatert", "SP", "01.01.2026">>
    /\ new_content = <<"laks", "SP", "Sist", "SP", "oppdatert", "SP", "03.02.2026">>
    /\ ~analysis.has_changes

\* C15: for every detected change is_significant is the OR of three signals:
\* change_percent at or above the threshold, a lexicon keyword in the added
\* content, a hard-trigger term in the added content; false only when all
\* three fail.
C15_SignificantIsOrOfThreeSignals ==
    (applied = 1 /\ analysis.has_changes) =>
        ( analysis.is_significant <=>
            ( \/ analysis.change_percent >= threshold
              \/ analysis.significant_keywords_found # {}
              \/ \E l \in analysis.added_lines :
                    \E k \in 1..Len(l) : l[k] \in {"frist", "Frist"} ) )

\* C15 happens: a change below the threshold is significant by a keyword of
\* its added line alone.
C15_Witness ==
    /\ applied = 1 /\ analysis.has_changes
    /\ analysis.change_percent < threshold
    /\ analysis.significant_keywords_found # {}
    /\ analysis.is_significant

\* The lines of text t.
LinesOf(t) == {SplitLines(t)[k] : k \in 1..Len(SplitLines(t))}

\* C16: when detect_changes reports a change, significant_keywords_found holds
\* a lexicon keyword exactly when it occurs, whatever its case and as a
\* substring, in a line that the new text has and the old text has not;
\* keywords of removed or unchanged lines are not reported, and a reported
\* keyword makes the change significant.
C16_KeywordsOfAddedLinesOnly ==
    (applied = 1 /\ analysis.has_changes) =>
        /\ "frist" \in analysis.significant_keywords_found <=>
               \E l \in LinesOf(new_content) \ LinesOf(old_content) :
                   \E k \in 1..Len(l) : l[k] \in {"frist", "Frist"}
        /\ "pd" \in analysis.significant_keywords_found <=>
               \E l \in LinesOf(new_content) \ LinesOf(old_content) :
                   \E k \in 1..Len(l) : l[k] = "oppdatert"
        /\ analysis.significant_keywords_found \subseteq {"frist", "pd"}
        /\ analysis.significant_keywords_found # {} => analysis.is_significant

\* C16 happens: a line with "Frist" was added under a threshold no change
\* reaches, and the keyword is reported and makes it significant.
C16_Witness ==
    /\ applied = 1 /\ analysis.has_changes
    /\ old_content = <<"laks">>
    /\ new_content = <<"laks", "NL", "Frist", "SP", "17">>
    /\ analysis.change_percent < threshold
    /\ analysis.significant_keywords_found = {"frist"}
    /\ analysis.is_significant

\* C17 as stated: with a threshold of at most 100 %, when the old content is
\* empty and the new content is any non-empty text, detect_changes reports a
\* change of 100 % that is significant.
C17_EmptyOldIsFullChange ==
    ( /\ applied = 1 /\ threshold <= 100 * 100
      /\ old_content = <<>> /\ new_content # <<>> )
    => /\ analysis.has_changes
       /\ analysis.change_percent = 100 * 100
       /\ analysis.is_significant

\* C17 amended: with a threshold of at most 100 %, when the old content is
\* empty and the new content is not empty after noise removal, detect_changes
\* reports a change of 100 % that is significant.
C17_EmptyOldIsFullChangeUnlessNoise ==
    ( /\ applied = 1 /\ threshold <= 100 * 100
      /\ old_content = <<>> /\ clean_text(new_content) # <<>> )
    => /\ analysis.has_changes
       /\ analysis.change_percent = 100 * 100
       /\ analysis.is_significant

\* C17 happens: a text without a keyword came after empty content and is a
\* significant change of 100 %.
C17_Witness ==
    /\ applied = 1 /\ threshold = 100 * 100
    /\ old_content = <<>> /\ new_content = <<"laks", "SP", "12:30">>
    /\ analysis.has_changes /\ analysis.change_percent = 100 * 100
    /\ analysis.significant_keywords_found = {}
    /\ analysis.is_significant

\* Routing: what a subscriber is sent.  Change k of the call is received by
\* client c when notify_clients found it relevant for c.
Received(c, k) ==
    /\ c \in DOMAIN relevant
    /\ \E j \in 1..Len(relevant[c]) : relevant[c][j] = k

\* The order critical > high > medium > low; a change without a priority is
\* medium and a subscriber without a threshold has threshold low, the defaults
\* of the two columns.
Rank(p) ==
    CASE p = "critical" -> 4 [] p = "high" -> 3 [] p = "medium" -> 2 [] p = "low" -> 1
PriorityOf(k) ==
    IF notify_changes[k].priority = None THEN "medium" ELSE notify_changes[k].priority
ThresholdOf(c) ==
    IF clients[c].priority_threshold = None THEN "low"
    ELSE clients[c].priority_threshold
BelowThreshold(c, k) == Rank(PriorityOf(k)) < Rank(ThresholdOf(c))

\* The category allow-list of c is empty, or holds the category of k's source.
NoCategories(c) == clients[c].categories \in {Null, <<>>}
CategoryListed(c, k) ==
    \/ NoCategories(c)
    \/ \E j \in 1..Len(clients[c].categories) :
           clients[c].categories[j] = SourceCategory(notify_changes[k].source_id)

\* The keyword allow-list of c is empty, or a term of it occurs in the diff
\* text of k, whatever the case of the letters.
NoKeywords(c) == clients[c].keywords \in {NullList, <<>>}
DiffTextOf(k) ==
    IF notify_changes[k].diff_text = Null THEN <<>> ELSE notify_changes[k].diff_text
KeywordOccurs(c, k) ==
    /\ ~ NoKeywords(c)
    /\ \E j \in 1..Len(clients[c].keywords) :
           In(lower(clients[c].keywords[j]), lower(DiffTextOf(k)))

\* notify_clients was called with changes.
Routed == applied = 1 /\ notify_changes # <<>>

\* C18: a change is excluded for an active subscriber whenever its priority is
\* below the subscriber's threshold in the order critical > high > medium > low,
\* and, the category and keyword filters admitting it, only then; threshold
\* high never receives medium or low, threshold low is sent every priority.
C18_ExcludedIffBelowThreshold ==
    Routed =>
        \A c \in ActiveClients(clients) : \A k \in 1..Len(notify_changes) :
            /\ BelowThreshold(c, k) => ~ Received(c, k)
            /\ (CategoryListed(c, k) /\ (NoKeywords(c) \/ KeywordOccurs(c, k)))
                   => (Received(c, k) <=> ~ BelowThreshold(c, k))
            /\ (ThresholdOf(c) = "high" /\ PriorityOf(k) \in {"medium", "low"})
                   => ~ Received(c, k)
            /\ (ThresholdOf(c) = "low" /\ NoCategories(c) /\ NoKeywords(c))
                   => Received(c, k)

\* A subscriber with threshold high is given a medium and a critical change of
\* a source it listens to, and receives the critical one only.
C18_Witness ==
    /\ Routed
    /\ clients[1] = Client(TRUE, <<>>, "high", NullList, TRUE, TRUE, "realtime")
    /\ notify_changes = << Change(SOURCES[1], "medium", <<"L", "u", "s">>),
                           Change(SOURCES[1], "critical", <<"L", "u", "s">>) >>
    /\ relevant[1] = << 2 >>
    /\ ~ Received(1, 1)

\* C19: an active subscriber with a non-empty keyword allow-list receives a
\* change only if a term of the list occurs in the change's diff text as a
\* substring, whatever the case of the letters, and does receive it then when
\* the category and priority filters admit it; an empty keyword allow-list
\* restricts nothing.
C19_KeywordListRestrictsByDiffText ==
    Routed =>
        \A c \in ActiveClients(clients) : \A k \in 1..Len(notify_changes) :
            /\ (~ NoKeywords(c) /\ Received(c, k)) => KeywordOccurs(c, k)
            /\ (KeywordOccurs(c, k) /\ CategoryListed(c, k) /\ ~ BelowThreshold(c, k))
                   => Received(c, k)
            /\ (NoKeywords(c) /\ CategoryListed(c, k) /\ ~ BelowThreshold(c, k))
                   => Received(c, k)

\* A subscriber listing "ka" and "LUS" is given a change whose diff text is
\* "Lus" and one whose diff text is "laks", and receives the first only.
C19_Witness ==
    /\ Routed
    /\ clients[1].is_active
    /\ clients[1].keywords = << <<"k", "a">>, <<"L", "U", "S">> >>
    /\ notify_changes = << Change(SOURCES[1], "high", <<"L", "u", "s">>),
                           Change(SOURCES[2], "high", <<"l", "a", "k", "s">>) >>
    /\ relevant[1] = << 1 >>

\* C20: only active subscribers are routed to: notify_clients looks for
\* relevant changes for the active clients only, and nothing is sent or logged
\* for an inactive one.  An active subscriber never receives a change whose
\* source category is missing from its non-empty category allow-list, and an
\* empty allow-list admits every category: the change is received whenever the
\* priority and keyword filters admit it.
C20_ActiveOnlyAndCategoryListed ==
    Routed =>
        /\ DOMAIN relevant = {c \in ClientIds : clients[c].is_active}
        /\ \A d \in 1..Len(deliveries) : clients[deliveries[d].client_id].is_active
        /\ \A n \in 1..Len(notifications) : clients[notifications[n].client_id].is_active
        /\ \A c \in DOMAIN relevant : \A k \in 1..Len(notify_changes) :
               /\ Received(c, k) => CategoryListed(c, k)
               /\ ( /\ NoCategories(c) /\ ~ BelowThreshold(c, k)
                    /\ (NoKeywords(c) \/ KeywordOccurs(c, k)) ) => Received(c, k)

\* An inactive subscriber without any filter next to an active one listing
\* "licenses" only; a change of the licenses source and one of the health
\* source are routed: the active one receives the first, the other nothing.
C20_Witness ==
    /\ Routed
    /\ clients[1] = Client(FALSE, Null, "low", NullList, TRUE, FALSE, "realtime")
    /\ clients[2] = Client(TRUE, << "licenses" >>, "low", <<>>, TRUE, FALSE, "realtime")
    /\ notify_changes = << Change(SOURCES[1], "low", <<"L", "u", "s">>),
                           Change(SOURCES[2], "low", Null) >>
    /\ DOMAIN relevant = {2}
    /\ relevant[2] = << 1 >>
    /\ deliveries = << Delivery(2, "email", "alert", << 1 >>) >>

\* The deliveries made to client c over one channel.
DeliveriesTo(c, method) ==
    SelectSeq(deliveries, LAMBDA d : d.client_id = c /\ d.method = method)

\* C21: a subscriber in digest mode for whom k >= 1 changes of the call are
\* relevant is sent, on each channel enabled for it, exactly one delivery, and
\* that delivery holds all k changes.
C21_DigestIsOneBatchPerChannel ==
    Routed =>
        \A c \in ActiveClients(clients) :
            (clients[c].digest_frequency # "realtime" /\ relevant[c] # <<>>) =>
                /\ clients[c].email_enabled =>
                       DeliveriesTo(c, "email") =
                           << Delivery(c, "email", "digest", relevant[c]) >>
                /\ clients[c].slack_enabled =>
                       /\ Len(DeliveriesTo(c, "slack")) = 1
                       /\ DeliveriesTo(c, "slack")[1].changes = relevant[c]

\* What is persisted for source s, and the hash the running cycle fetched for s.
PersistedSnapshot(s) == IF impl = "run_monitor" THEN snapshots_file[s] ELSE db_snapshots[s]
FetchedHash(s) ==
    IF impl = "run_monitor" THEN Hash(normalize_content(this_page[s]))
    ELSE Hash(this_page[s])
RecordedThisCycle(s) ==
    \E k \in 1..Len(ChangeRecords) :
        ChangeRecords[k].source_id = s /\ ChangeRecords[k].detected_at = cycle

\* C22: when a cycle has stopped (at its end, or cut short or crashed after a
\* source's work was finished), every source for which the cycle persisted a
\* change record has the hash of the new content in its persisted snapshot.
C22_StoppedCycleIsConsistent ==
    (pc \in {"idle", "crashed"} /\ cycle >= 1) =>
        \A s \in SourceIds :
            RecordedThisCycle(s) =>
                /\ PersistedSnapshot(s).exists
                /\ PersistedSnapshot(s).hash = FetchedHash(s)

\* C23: once a stop signal has been received, no further source of the cycle
\* is started: check_source is not entered for the next source.
C23_NoSourceStartedAfterStop ==
    [][(stop_signal /\ pc = "loop") => pc' # "fetch"]_vars

\* C29: a shutdown signal delivered at any time after the handlers are
\* installed, the initial run_once included, clears the running flag for good:
\* once the signal has been delivered, running is false (and so the loop of
\* run_daemon exits at its next test).
C29_SignalClearsRunningForGood == stop_signal => ~ running

\* C24: the change log only grows at its end: every record persisted before a
\* step is in the log after the step, at its place and with its contents.
C24_ChangeRecordsAreKept ==
    [][ /\ Len(ChangeRecords') >= Len(ChangeRecords)
        /\ \A k \in 1..Len(ChangeRecords) : ChangeRecords'[k] = ChangeRecords[k] ]_vars

\* The cycle detects a change for the source in hand: a snapshot exists and the
\* fetched hash differs from it, and under check_all_sources the detector finds
\* the difference significant.
ChangeDetected(s) ==
    /\ pc = "process" /\ s = todo[i] /\ ~ fetched.error
    /\ Stored(s).exists /\ fetched.hash # Stored(s).hash
    /\ impl = "check_all_sources" =>
           detect_changes(Stored(s).content, fetched.text, min_change_threshold).has_changes

\* C25: every detected change gets its change record in the step that detects
\* it, whether the summary came from the model or is the fallback and whether
\* the alerts were delivered or not, and no step of the cycle, a failed
\* delivery or summary included, takes a record of that cycle away.
C25_RecordPersistedWhateverSummaryAndDelivery ==
    [][ /\ \A s \in SourceIds :
               ChangeDetected(s) =>
                   /\ ChangeRecords' # <<>>
                   /\ ChangeRecords'[Len(ChangeRecords')].source_id = s
                   /\ ChangeRecords'[Len(ChangeRecords')].detected_at = cycle
        /\ \A k \in 1..Len(ChangeRecords) :
               ChangeRecords[k].detected_at = cycle =>
                   \E j \in 1..Len(ChangeRecords') : ChangeRecords'[j] = ChangeRecords[k] ]_vars

\* run_monitor has recorded a change whose summary is the fallback and whose
\* alerts were not delivered.
C25_Witness ==
    /\ impl = "run_monitor" /\ alert_sent = "failed"
    /\ changes # <<>>
    /\ changes[Len(changes)].summary = "fallback"
    /\ changes[Len(changes)].detected_at = cycle

\* C26: a source whose fetch failed in a cycle is among the sources the next
\* cycle sets out to fetch.
C26_FailedSourceIsFetchedNextCycle ==
    [][ (pc \in {"idle", "crashed"} /\ pc' = "loop") =>
            \A s \in SourceIds :
                (done[s] = 1 /\ fail_run[s] >= 1) =>
                    \E k \in 1..Len(todo') : todo'[k] = s ]_vars

\* C27: a response that cannot be parsed ends the fetch call at once with a
\* failure result: after such a response the call is over, its result is a
\* failure, and the caller goes on (nothing was raised, nothing is retried).
C27_UnparseableIsPermanentFailure ==
    last_status = "garbled" => (pc = "process" /\ fetched.error)

\* C28: detect_changes only ever reports 0 % or 100 %: whenever it reports a
\* change the percent is 100 and, for a threshold of at most 100 %, the change
\* is significant, so "has_changes and is_significant" is has_changes.
C28_ChangePercentIsAllOrNothing ==
    applied = 1 =>
        /\ analysis.change_percent \in {0, 100 * 100}
        /\ analysis.has_changes => analysis.change_percent = 100 * 100
        /\ threshold <= 100 * 100 =>
               ((analysis.has_changes /\ analysis.is_significant) <=> analysis.has_changes)

\* Two texts of two lines each that share their first line: a change is
\* reported, of 100 %, without any keyword, and is significant at 100 %.
C28_Witness ==
    /\ applied = 1 /\ threshold = 100 * 100
    /\ \E k \in 1..Len(old_content) : old_content[k] = "NL"
    /\ \E k \in 1..Len(new_content) : new_content[k] = "NL"
    /\ old_content # <<>> /\ new_content # <<>> /\ old_content[1] = new_content[1]
    /\ analysis.has_changes /\ analysis.change_percent = 100 * 100
    /\ analysis.significant_keywords_found = {}
    /\ analysis.is_significant

\* How often change k was delivered to client c over a channel, and how often
\* a Notification row says so.
TimesDelivered(c, k, method) ==
    Cardinality({d \in 1..Len(deliveries) :
                    /\ deliveries[d].client_id = c /\ deliveries[d].method = method
                    /\ \E j \in 1..Len(deliveries[d].changes) :
                           deliveries[d].changes[j] = k})
TimesLogged(c, k, method) ==
    Cardinality({n \in 1..Len(notifications) :
                    /\ notifications[n].client_id = c
                    /\ notifications[n].delivery_method = method
                    /\ notifications[n].change_id = k})

\* C30: the Notification rows of a call name the changes that were delivered:
\* each change is logged for a client and a channel as often as it was
\* delivered to that client over that channel.
C30_NotificationsNameTheDeliveredChange ==
    Routed =>
        \A c \in ClientIds : \A k \in 1..Len(notify_changes) :
            \A method \in {"email", "slack"} :
                TimesLogged(c, k, method) = TimesDelivered(c, k, method)

====
